---- MODULE Spec2Model ----
(***************************************************************************)
(* Model of the quantitative core of the stock analysis agent: the         *)
(* rule-based decision engine (app/agents/decision_agent.py, decide), the  *)
(* indicator engine (app/agents/indicator_agent.py), the sentiment         *)
(* aggregator (app/agents/sentiment_agent.py, SentimentAgent), and the     *)
(* pipeline that runs them for a request (app/agents/planner_agent.py,     *)
(* analyze_stock) with the report made of its result                       *)
(* (app/agents/report_agent.py, ReportAgent.generate_report).              *)
(*                                                                         *)
(* Number representation.  The program works on Python floats.  The model  *)
(* keeps every quantity as a scaled integer:                               *)
(*   rsi, ma20, macd   in units of 0.0001  (70.0001 is 700001)             *)
(*   overall_score     in units of 0.001   (0.2 is 200)                    *)
(*   confidence        a record [m, r]: m in units of 0.0001 and r the     *)
(*                     binary rounding residue, in units of one ulp, that  *)
(*                     IEEE-754 double arithmetic leaves on the decimal    *)
(*                     value (0.9 - 0.3 evaluates to 0.6000000000000001,   *)
(*                     which is [m |-> 6000, r |-> 1]).                    *)
(* An optional value (Optional[float], Optional[Dict]) is a sequence of    *)
(* length at most one: <<>> is None and <<v>> is the value v.  A dict is a *)
(* function whose DOMAIN is its key set.                                   *)
(***************************************************************************)
EXTENDS Integers, Sequences, FiniteSets, TLC

VARIABLES pc, indicators, sentiment, action, confidence, reason, raised, result

\* indicator engine: position, the call (function and arguments), its outcome
VARIABLES ipc, icall, iresult

\* sentiment aggregator: position, the texts, the scorer calls made so far,
\* the locals scores and interpretations, the returned aggregate
VARIABLES spc, texts, calls, scores, interpretations, sresult

decideVars == <<pc, indicators, sentiment, action, confidence, reason, raised, result>>

indVars == <<ipc, icall, iresult>>

\* pipeline, per request: position, what the outside world answers to the
\* request, the locals of analyze_stock, its result, the outcome of the
\* report made of it, the calls made so far
VARIABLES ppc, penv, plocal, presult, preport, ptrace

sentVars == <<spc, texts, calls, scores, interpretations, sresult>>

pipeVars == <<ppc, penv, plocal, presult, preport, ptrace>>

vars == <<decideVars, indVars, sentVars, pipeVars>>

(***************************************************************************)
(* Literals of decide.                                                     *)
(***************************************************************************)
RSI_OVERSOLD == 300000
RSI_OVERBOUGHT == 700000
MACD_BIAS == 100
CONF_SIGNAL == 8000
CONF_MACD_CONFIRMED == 9000
CONF_HOLD == 5000
CONF_HOLD_BIAS == 6000
SENT_CONFIRM == 200
SENT_CONTRADICT == 400
SENT_TIEBREAK == 500
CONF_BOOST == 1000
CONF_CAP == 9500
CONF_PENALTY == 3000
CONF_FLOOR == 4000
CONF_PROMOTED == 6000

REQUIRED_KEYS == {"rsi", "ma20", "macd"}

None == <<>>
Some(v) == <<v>>

\* no call of the indicator engine is in progress
IndInit ==
    /\ ipc = "idle"
    /\ icall = None
    /\ iresult = None

\* the requests that may be in progress at the same time
Requests == {"a", "b"}

\* no request has arrived
PipeInit ==
    /\ ppc = [r \in Requests |-> "idle"]
    /\ penv = [r \in Requests |-> None]
    /\ plocal = [r \in Requests |->
                   [df |-> None, sentiment_result |-> None,
                    indicators |-> None, decision |-> None]]
    /\ presult = [r \in Requests |-> None]
    /\ preport = [r \in Requests |-> None]
    /\ ptrace = [r \in Requests |-> <<>>]

\* no aggregation is in progress
SentInit ==
    /\ spc = "idle"
    /\ texts = <<>>
    /\ calls = <<>>
    /\ scores = <<>>
    /\ interpretations = <<>>
    /\ sresult = None

(***************************************************************************)
(* Clauses of the reason string.  The interpolated numbers ({rsi:.1f},     *)
(* {score}, {sentiment_label}) are left as placeholders: a clause is       *)
(* identified by its literal text.                                         *)
(***************************************************************************)
CL_OVERSOLD == "RSI {rsi} indicates oversold condition"
CL_OVERBOUGHT == "RSI {rsi} indicates overbought condition"
CL_NEUTRAL == "RSI {rsi} is in neutral zone"
CL_MACD_POS == " and MACD shows positive momentum"
CL_MACD_NEG == " and MACD shows negative momentum"
CL_MACD_NA == " (MACD unavailable - insufficient data)"
CL_MACD_BULL == " with slight bullish bias (positive MACD)"
CL_MACD_BEAR == " with slight bearish bias (negative MACD)"
CL_MACD_NA26 == " (MACD unavailable - need 26+ data points)"
CL_SUPPORTED == ". Supported by {label} news sentiment ({score})"
CL_CAUTION_NEG == ". However, negative news sentiment ({score}) suggests caution"
CL_CAUTION_POS == ". However, positive news sentiment ({score}) suggests caution"
CL_UP_BUY == ". upgraded to BUY due to strong positive news sentiment ({score})"
CL_UP_SELL == ". upgraded to SELL due to strong negative news sentiment ({score})"

BaseClauses == {CL_OVERSOLD, CL_OVERBOUGHT, CL_NEUTRAL}
MacdClauses == {CL_MACD_POS, CL_MACD_NEG, CL_MACD_NA, CL_MACD_BULL, CL_MACD_BEAR, CL_MACD_NA26}
SentimentClauses == {CL_SUPPORTED, CL_CAUTION_NEG, CL_CAUTION_POS, CL_UP_BUY, CL_UP_SELL}

(***************************************************************************)
(* Float arithmetic on confidences.                                        *)
(***************************************************************************)
Conf(m) == [m |-> m, r |-> 0]

FLess(a, b) == a.m < b.m \/ (a.m = b.m /\ a.r < b.r)

FMin(a, b) == IF FLess(b, a) THEN b ELSE a

FMax(a, b) == IF FLess(a, b) THEN b ELSE a

\* confidence + 0.1: the double sums 0.8 + 0.1 and 0.9 + 0.1 are exactly the
\* doubles 0.9 and 1.0, so addition carries the residue of its operand only.
FAdd(a, b) == [m |-> a.m + b.m, r |-> a.r + b.r]

\* confidence - 0.3: the double difference 0.9 - 0.3 is one ulp above the
\* double 0.6 (0.6000000000000001); 0.8 - 0.3 is exactly the double 0.5.
FSub(a, b) ==
    [m |-> a.m - b.m,
     r |-> a.r - b.r + (IF a.m = CONF_MACD_CONFIRMED /\ b.m = CONF_PENALTY THEN 1 ELSE 0)]

\* round(confidence, 2): nearest multiple of 0.01, residue cleared; a value
\* exactly half way goes to the even multiple.
Round2(c) ==
    LET q == c.m \div 100
        rem == c.m % 100
        up == \/ rem > 50
              \/ rem = 50 /\ c.r > 0
              \/ rem = 50 /\ c.r = 0 /\ q % 2 = 1
    IN  Conf(100 * (IF up THEN q + 1 ELSE q))

(***************************************************************************)
(* decide, lines 44-47: the required keys are in the mapping.              *)
(***************************************************************************)
\* HasRequiredKeys testing the value of macd as well as its presence
HasRequiredKeys_NonNull(ind) ==
    REQUIRED_KEYS \subseteq DOMAIN ind /\ ind["macd"] # None

HasRequiredKeys(ind) == REQUIRED_KEYS \subseteq DOMAIN ind

(***************************************************************************)
(* decide, lines 54-93: base rule on RSI and the MACD adjustment of the    *)
(* selected branch.  Each yields the locals action, confidence, reason.    *)
(***************************************************************************)
\* BuyBranch with `macd >= 0` for `macd > 0`
BuyBranch_MacdNonNegative(macd) ==
    IF macd # None /\ macd[1] >= 0
    THEN [action |-> "BUY", confidence |-> Conf(CONF_MACD_CONFIRMED),
          reason |-> <<CL_OVERSOLD, CL_MACD_POS>>]
    ELSE IF macd = None
    THEN [action |-> "BUY", confidence |-> Conf(CONF_SIGNAL),
          reason |-> <<CL_OVERSOLD, CL_MACD_NA>>]
    ELSE [action |-> "BUY", confidence |-> Conf(CONF_SIGNAL),
          reason |-> <<CL_OVERSOLD>>]

BuyBranch(macd) ==
    IF macd # None /\ macd[1] > 0
    THEN [action |-> "BUY", confidence |-> Conf(CONF_MACD_CONFIRMED),
          reason |-> <<CL_OVERSOLD, CL_MACD_POS>>]
    ELSE IF macd = None
    THEN [action |-> "BUY", confidence |-> Conf(CONF_SIGNAL),
          reason |-> <<CL_OVERSOLD, CL_MACD_NA>>]
    ELSE [action |-> "BUY", confidence |-> Conf(CONF_SIGNAL),
          reason |-> <<CL_OVERSOLD>>]

\* SellBranch with `else` for `elif macd is None`
SellBranch_AlwaysNote(macd) ==
    IF macd # None /\ macd[1] < 0
    THEN [action |-> "SELL", confidence |-> Conf(CONF_MACD_CONFIRMED),
          reason |-> <<CL_OVERBOUGHT, CL_MACD_NEG>>]
    ELSE [action |-> "SELL", confidence |-> Conf(CONF_SIGNAL),
          reason |-> <<CL_OVERBOUGHT, CL_MACD_NA>>]

SellBranch(macd) ==
    IF macd # None /\ macd[1] < 0
    THEN [action |-> "SELL", confidence |-> Conf(CONF_MACD_CONFIRMED),
          reason |-> <<CL_OVERBOUGHT, CL_MACD_NEG>>]
    ELSE IF macd = None
    THEN [action |-> "SELL", confidence |-> Conf(CONF_SIGNAL),
          reason |-> <<CL_OVERBOUGHT, CL_MACD_NA>>]
    ELSE [action |-> "SELL", confidence |-> Conf(CONF_SIGNAL),
          reason |-> <<CL_OVERBOUGHT>>]

\* HoldBranch with the bias thresholds at 0 for 0.01 and -0.01
HoldBranch_ZeroBias(macd) ==
    IF macd # None
    THEN IF macd[1] > 0
         THEN [action |-> "HOLD", confidence |-> Conf(CONF_HOLD_BIAS),
               reason |-> <<CL_NEUTRAL, CL_MACD_BULL>>]
         ELSE IF macd[1] < 0
         THEN [action |-> "HOLD", confidence |-> Conf(CONF_HOLD_BIAS),
               reason |-> <<CL_NEUTRAL, CL_MACD_BEAR>>]
         ELSE [action |-> "HOLD", confidence |-> Conf(CONF_HOLD),
               reason |-> <<CL_NEUTRAL>>]
    ELSE [action |-> "HOLD", confidence |-> Conf(CONF_HOLD),
          reason |-> <<CL_NEUTRAL, CL_MACD_NA26>>]

HoldBranch(macd) ==
    IF macd # None
    THEN IF macd[1] > MACD_BIAS
         THEN [action |-> "HOLD", confidence |-> Conf(CONF_HOLD_BIAS),
               reason |-> <<CL_NEUTRAL, CL_MACD_BULL>>]
         ELSE IF macd[1] < -MACD_BIAS
         THEN [action |-> "HOLD", confidence |-> Conf(CONF_HOLD_BIAS),
               reason |-> <<CL_NEUTRAL, CL_MACD_BEAR>>]
         ELSE [action |-> "HOLD", confidence |-> Conf(CONF_HOLD),
               reason |-> <<CL_NEUTRAL>>]
    ELSE [action |-> "HOLD", confidence |-> Conf(CONF_HOLD),
          reason |-> <<CL_NEUTRAL, CL_MACD_NA26>>]

\* BaseRule with inclusive thresholds (`<=`, `>=`)
BaseRule_Inclusive(rsi, macd) ==
    IF rsi <= RSI_OVERSOLD THEN BuyBranch(macd)
    ELSE IF rsi >= RSI_OVERBOUGHT THEN SellBranch(macd)
    ELSE HoldBranch(macd)

BaseRule(rsi, macd) ==
    IF rsi < RSI_OVERSOLD THEN BuyBranch(macd)
    ELSE IF rsi > RSI_OVERBOUGHT THEN SellBranch(macd)
    ELSE HoldBranch(macd)

(***************************************************************************)
(* decide, line 96: `if sentiment and "overall_score" in sentiment`.       *)
(* None and the empty dict are falsy.                                      *)
(***************************************************************************)
SentimentApplies(sent) ==
    /\ sent # None
    /\ DOMAIN sent[1] # {}
    /\ "overall_score" \in DOMAIN sent[1]

(***************************************************************************)
(* decide, lines 101-131: the sentiment rules, on the locals               *)
(* loc = [action, confidence, reason] and the score.                       *)
(***************************************************************************)
\* Confirm without the 0.95 cap
Confirm_NoCap(loc) ==
    [loc EXCEPT !.confidence = FAdd(loc.confidence, Conf(CONF_BOOST)),
                !.reason = Append(loc.reason, CL_SUPPORTED)]

\* Confirm capped at 1.0 for 0.95
Confirm_CapAtOne(loc) ==
    [loc EXCEPT !.confidence = FMin(Conf(10000), FAdd(loc.confidence, Conf(CONF_BOOST))),
                !.reason = Append(loc.reason, CL_SUPPORTED)]

\* lines 102-103 and 106-107: confirmation
Confirm(loc) ==
    [loc EXCEPT !.confidence = FMin(Conf(CONF_CAP), FAdd(loc.confidence, Conf(CONF_BOOST))),
                !.reason = Append(loc.reason, CL_SUPPORTED)]

\* Contradict without the downgrade of the action
Contradict_KeepsAction(loc, clause) ==
    [loc EXCEPT !.confidence = FMax(Conf(CONF_FLOOR), FSub(loc.confidence, Conf(CONF_PENALTY))),
                !.reason = Append(loc.reason, clause)]

\* lines 112-114 and 118-120: strong contradiction
Contradict(loc, clause) ==
    [loc EXCEPT !.confidence = FMax(Conf(CONF_FLOOR), FSub(loc.confidence, Conf(CONF_PENALTY))),
                !.action = "HOLD",
                !.reason = Append(loc.reason, clause)]

\* TieBreak with inclusive thresholds (`>=`, `<=`)
TieBreak_Inclusive(loc, score) ==
    IF score >= SENT_TIEBREAK
    THEN [action |-> "BUY", confidence |-> Conf(CONF_PROMOTED),
          reason |-> Append(loc.reason, CL_UP_BUY)]
    ELSE IF score <= -SENT_TIEBREAK
    THEN [action |-> "SELL", confidence |-> Conf(CONF_PROMOTED),
          reason |-> Append(loc.reason, CL_UP_SELL)]
    ELSE loc

\* lines 124-131: tie-break of a HOLD
TieBreak(loc, score) ==
    IF score > SENT_TIEBREAK
    THEN [action |-> "BUY", confidence |-> Conf(CONF_PROMOTED),
          reason |-> Append(loc.reason, CL_UP_BUY)]
    ELSE IF score < -SENT_TIEBREAK
    THEN [action |-> "SELL", confidence |-> Conf(CONF_PROMOTED),
          reason |-> Append(loc.reason, CL_UP_SELL)]
    ELSE loc

\* SentimentRule with the tie-break as a separate `if` after the chain
SentimentRule_Sequential(loc, score) ==
    LET chained ==
            IF loc.action = "BUY" /\ score > SENT_CONFIRM THEN Confirm(loc)
            ELSE IF loc.action = "SELL" /\ score < -SENT_CONFIRM THEN Confirm(loc)
            ELSE IF loc.action = "BUY" /\ score < -SENT_CONTRADICT
            THEN Contradict(loc, CL_CAUTION_NEG)
            ELSE IF loc.action = "SELL" /\ score > SENT_CONTRADICT
            THEN Contradict(loc, CL_CAUTION_POS)
            ELSE loc
    IN  IF chained.action = "HOLD" THEN TieBreak(chained, score) ELSE chained

\* SentimentRule confirming on any score that does not contradict
SentimentRule_ZeroConfirms(loc, score) ==
    IF loc.action = "BUY" /\ score >= 0 THEN Confirm(loc)
    ELSE IF loc.action = "SELL" /\ score <= 0 THEN Confirm(loc)
    ELSE IF loc.action = "BUY" /\ score < -SENT_CONTRADICT THEN Contradict(loc, CL_CAUTION_NEG)
    ELSE IF loc.action = "SELL" /\ score > SENT_CONTRADICT THEN Contradict(loc, CL_CAUTION_POS)
    ELSE IF loc.action = "HOLD" THEN TieBreak(loc, score)
    ELSE loc

\* lines 101-123: the if/elif chain, first match wins
SentimentRule(loc, score) ==
    IF loc.action = "BUY" /\ score > SENT_CONFIRM THEN Confirm(loc)
    ELSE IF loc.action = "SELL" /\ score < -SENT_CONFIRM THEN Confirm(loc)
    ELSE IF loc.action = "BUY" /\ score < -SENT_CONTRADICT THEN Contradict(loc, CL_CAUTION_NEG)
    ELSE IF loc.action = "SELL" /\ score > SENT_CONTRADICT THEN Contradict(loc, CL_CAUTION_POS)
    ELSE IF loc.action = "HOLD" THEN TieBreak(loc, score)
    ELSE loc

(***************************************************************************)
(* decide, lines 133-137: the returned dict.                               *)
(***************************************************************************)
\* ReturnValue without round(confidence, 2)
ReturnValue_Unrounded(loc) ==
    [action |-> loc.action, confidence |-> loc.confidence, reason |-> loc.reason]

ReturnValue(loc) ==
    [action |-> loc.action, confidence |-> Round2(loc.confidence), reason |-> loc.reason]

(***************************************************************************)
(* The aggregates decide is given when no text was scored.                 *)
(***************************************************************************)
\* analyze_sentiment, lines 56-61
EmptyAggregate ==
    [texts_analyzed |-> 0,
     overall_sentiment |-> "NEUTRAL",
     overall_score |-> 0,
     error |-> "No texts provided for sentiment analysis"]

\* a substitute that reads as strongly negative news
SubstituteSentiment_Bearish ==
    [error |-> "str(e)", overall_sentiment |-> "NEGATIVE", overall_score |-> -1000]

\* planner_agent, line 72
SubstituteSentiment ==
    [error |-> "str(e)", overall_sentiment |-> "NEUTRAL", overall_score |-> 0]

(***************************************************************************)
(* Inputs.  MaxDelta is how far, in units of the last decimal place, the   *)
(* sampled inputs go on each side of every threshold of the rules.         *)
(***************************************************************************)
MaxDelta == 1

Around(ts) == {t + d : t \in ts, d \in -MaxDelta..MaxDelta}

RsiInputs ==
    {None} \cup {Some(v) : v \in {0, 250000, 500000, 750000, 1000000}
                              \cup Around({RSI_OVERSOLD, RSI_OVERBOUGHT})}

Ma20Inputs == {Some(1000000)}

MacdInputs ==
    {None} \cup {Some(v) : v \in {-5000, 5000} \cup Around({-MACD_BIAS, 0, MACD_BIAS})}

ScoreInputs ==
    {-1000, -600, 600, 1000}
        \cup Around({-SENT_TIEBREAK, -SENT_CONTRADICT, -SENT_CONFIRM, 0,
                     SENT_CONFIRM, SENT_CONTRADICT, SENT_TIEBREAK})

Labels == {"POSITIVE", "NEGATIVE", "NEUTRAL"}

FullIndicators ==
    {[rsi |-> r, ma20 |-> m, macd |-> d] : r \in RsiInputs, m \in Ma20Inputs, d \in MacdInputs}

\* every mapping over a subset of the required keys
IndicatorInputs ==
    UNION {{[k \in K |-> full[k]] : K \in SUBSET REQUIRED_KEYS} : full \in FullIndicators}

\* None, the empty dict, dicts carrying overall_score, overall_sentiment or
\* both, and the two aggregates of no scored text
SentimentInputs ==
    {None, Some(<<>>)}
        \cup {Some([overall_sentiment |-> l]) : l \in Labels}
        \cup {Some([overall_score |-> s]) : s \in ScoreInputs}
        \cup {Some([overall_score |-> s, overall_sentiment |-> l]) : s \in ScoreInputs, l \in Labels}
        \cup {Some(SubstituteSentiment), Some(EmptyAggregate)}

(***************************************************************************)
(* State machine of one call of decide.                                    *)
(***************************************************************************)
Locals == [action |-> action, confidence |-> confidence, reason |-> reason]

Init ==
    /\ pc = "idle"
    /\ indicators = <<>>
    /\ sentiment = None
    /\ action = "unset"
    /\ confidence = Conf(0)
    /\ reason = <<>>
    /\ raised = "none"
    /\ result = None
    /\ IndInit
    /\ SentInit
    /\ PipeInit

\* a caller invokes decide(ind, sent)
Call(ind, sent) ==
    /\ pc = "idle"
    /\ indicators' = ind
    /\ sentiment' = sent
    /\ pc' = "validate"
    /\ UNCHANGED <<action, confidence, reason, raised, result>>
    /\ UNCHANGED <<indVars, sentVars, pipeVars>>

\* lines 44-51: validate the mapping and read the three indicators
Validate ==
    /\ pc = "validate"
    /\ IF HasRequiredKeys(indicators)
       THEN pc' = "base" /\ raised' = raised
       ELSE pc' = "raised" /\ raised' = "ValueError"
    /\ UNCHANGED <<indicators, sentiment, action, confidence, reason, result>>
    /\ UNCHANGED <<indVars, sentVars, pipeVars>>

\* lines 54-93: `rsi < 30` on a None rsi is a TypeError
Base ==
    /\ pc = "base"
    /\ IF indicators["rsi"] = None
       THEN /\ pc' = "raised"
            /\ raised' = "TypeError"
            /\ UNCHANGED <<action, confidence, reason>>
       ELSE LET loc == BaseRule(indicators["rsi"][1], indicators["macd"])
            IN  /\ action' = loc.action
                /\ confidence' = loc.confidence
                /\ reason' = loc.reason
                /\ pc' = "sentiment"
                /\ raised' = raised
    /\ UNCHANGED <<indicators, sentiment, result>>
    /\ UNCHANGED <<indVars, sentVars, pipeVars>>

\* lines 96-131: line 98 reads sentiment["overall_sentiment"] before any rule
Fuse ==
    /\ pc = "sentiment"
    /\ IF ~SentimentApplies(sentiment)
       THEN /\ pc' = "return"
            /\ UNCHANGED <<action, confidence, reason, raised>>
       ELSE IF "overall_sentiment" \notin DOMAIN sentiment[1]
       THEN /\ pc' = "raised"
            /\ raised' = "KeyError"
            /\ UNCHANGED <<action, confidence, reason>>
       ELSE LET loc == SentimentRule(Locals, sentiment[1]["overall_score"])
            IN  /\ action' = loc.action
                /\ confidence' = loc.confidence
                /\ reason' = loc.reason
                /\ pc' = "return"
                /\ raised' = raised
    /\ UNCHANGED <<indicators, sentiment, result>>
    /\ UNCHANGED <<indVars, sentVars, pipeVars>>

\* lines 133-137
Return ==
    /\ pc = "return"
    /\ result' = Some(ReturnValue(Locals))
    /\ pc' = "returned"
    /\ UNCHANGED <<indicators, sentiment, action, confidence, reason, raised>>
    /\ UNCHANGED <<indVars, sentVars, pipeVars>>

\* any caller, any arguments
Invoke ==
    pc = "idle" /\ \E ind \in IndicatorInputs, sent \in SentimentInputs : Call(ind, sent)

Next ==
    \/ Invoke
    \/ Validate
    \/ Base
    \/ Fuse
    \/ Return

Spec == Init /\ [][Next]_vars

(***************************************************************************)
(* Properties of decide.                                                   *)
(***************************************************************************)
Rsi == indicators["rsi"][1]
Macd == indicators["macd"]
Res == result[1]
Returned == pc = "returned"
NoSentiment == sentiment = None
WellFormed == REQUIRED_KEYS \subseteq DOMAIN indicators /\ indicators["rsi"] # None

\* the base action the RSI table of the decision engine prescribes
TableAction ==
    IF Rsi < 300000 THEN "BUY" ELSE IF Rsi > 700000 THEN "SELL" ELSE "HOLD"

\* the confidence the MACD adjustment prescribes for the selected branch
TableConfidence ==
    CASE TableAction = "BUY" -> IF Macd # None /\ Macd[1] > 0 THEN 9000 ELSE 8000
      [] TableAction = "SELL" -> IF Macd # None /\ Macd[1] < 0 THEN 9000 ELSE 8000
      [] TableAction = "HOLD" ->
            IF Macd # None /\ (Macd[1] > 100 \/ Macd[1] < -100) THEN 6000 ELSE 5000

\* C1: with rsi, ma20 and macd in the mapping and no sentiment, decide returns
\* and its action is BUY for rsi < 30, SELL for rsi > 70 and HOLD for
\* 30 <= rsi <= 70 (30.0 and 70.0 give HOLD, 70.0001 gives SELL).
C1_BaseActionFromRsi ==
    (NoSentiment /\ pc \in {"returned", "raised"}) =>
        /\ (WellFormed => Returned)
        /\ Returned =>
            /\ (Rsi < 300000 => Res.action = "BUY")
            /\ (Rsi > 700000 => Res.action = "SELL")
            /\ (300000 <= Rsi /\ Rsi <= 700000 => Res.action = "HOLD")
            /\ (Rsi \in {300000, 700000} => Res.action = "HOLD")
            /\ (Rsi = 700001 => Res.action = "SELL")

C1_Witness ==
    /\ Returned /\ NoSentiment
    /\ Rsi = 700000
    /\ Res.action = "HOLD"

\* C2: with no sentiment, the BUY branch returns confidence 0.9 exactly when
\* macd is present and > 0 and 0.8 otherwise; the SELL branch returns 0.9
\* exactly when macd is present and < 0 and 0.8 otherwise.
C2_SignalConfidence ==
    (Returned /\ NoSentiment) =>
        /\ Rsi < 300000 =>
            /\ Res.action = "BUY"
            /\ Res.confidence = Conf(IF Macd # None /\ Macd[1] > 0 THEN 9000 ELSE 8000)
        /\ Rsi > 700000 =>
            /\ Res.action = "SELL"
            /\ Res.confidence = Conf(IF Macd # None /\ Macd[1] < 0 THEN 9000 ELSE 8000)

C2_Witness ==
    /\ Returned /\ NoSentiment
    /\ indicators = [rsi |-> Some(250000), ma20 |-> Some(1000000), macd |-> Some(5000)]
    /\ Res.action = "BUY"
    /\ Res.confidence = Conf(9000)

\* C3: with no sentiment and 30 <= rsi <= 70 the action is HOLD for every
\* macd; the confidence is 0.6 when macd is present and beyond +-0.01, and
\* 0.5 when macd is absent or within [-0.01, 0.01].
C3_HoldConfidence ==
    (Returned /\ NoSentiment /\ 300000 <= Rsi /\ Rsi <= 700000) =>
        /\ Res.action = "HOLD"
        /\ (Macd # None /\ (Macd[1] > 100 \/ Macd[1] < -100)) => Res.confidence = Conf(6000)
        /\ (Macd = None \/ (-100 <= Macd[1] /\ Macd[1] <= 100)) => Res.confidence = Conf(5000)

C3_Witness ==
    /\ Returned /\ NoSentiment
    /\ Rsi = 500000
    /\ Macd = Some(100)
    /\ Res.action = "HOLD"
    /\ Res.confidence = Conf(5000)

FullAggregate ==
    sentiment # None /\ DOMAIN sentiment[1] = {"overall_score", "overall_sentiment"}

Score == sentiment[1]["overall_score"]

MinOf(a, b) == IF a < b THEN a ELSE b

MaxOf(a, b) == IF a > b THEN a ELSE b

\* C4: with an aggregate carrying overall_score and overall_sentiment, a base
\* BUY with score > 0.2 or a base SELL with score < -0.2 keeps its action and
\* returns confidence min(0.95, c + 0.1), c the confidence after the MACD
\* adjustment (0.8 gives 0.9, 0.9 gives 0.95).
C4_Confirmation ==
    (/\ Returned /\ FullAggregate
     /\ \/ TableAction = "BUY" /\ Score > 200
        \/ TableAction = "SELL" /\ Score < -200) =>
        /\ Res.action = TableAction
        /\ Res.confidence = Conf(MinOf(9500, TableConfidence + 1000))
        /\ TableConfidence = 8000 => Res.confidence = Conf(9000)
        /\ TableConfidence = 9000 => Res.confidence = Conf(9500)

C4_Witness ==
    /\ Returned /\ FullAggregate
    /\ Rsi = 250000 /\ Macd = Some(5000)
    /\ Score = 201
    /\ Res.action = "BUY"
    /\ Res.confidence = Conf(9500)

\* C5: with an aggregate carrying overall_score and overall_sentiment, a base
\* BUY with score < -0.4 or a base SELL with score > 0.4 is downgraded to HOLD
\* with confidence max(0.4, c - 0.3), c the confidence after the MACD
\* adjustment.
C5_Contradiction ==
    (/\ Returned /\ FullAggregate
     /\ \/ TableAction = "BUY" /\ Score < -400
        \/ TableAction = "SELL" /\ Score > 400) =>
        /\ Res.action = "HOLD"
        /\ Res.confidence = Conf(MaxOf(4000, TableConfidence - 3000))

C5_Witness ==
    /\ Returned /\ FullAggregate
    /\ Rsi = 750000 /\ Macd = None
    /\ Score = 401
    /\ Res.action = "HOLD"
    /\ Res.confidence = Conf(5000)

\* C6: with an aggregate carrying overall_score and overall_sentiment and a
\* base action HOLD, score > 0.5 promotes to BUY with confidence 0.6 and
\* score < -0.5 promotes to SELL with confidence 0.6, whatever the MACD bias;
\* for -0.5 <= score <= 0.5 action and confidence are unchanged.
C6_TieBreak ==
    (Returned /\ FullAggregate /\ TableAction = "HOLD") =>
        /\ Score > 500 => (Res.action = "BUY" /\ Res.confidence = Conf(6000))
        /\ Score < -500 => (Res.action = "SELL" /\ Res.confidence = Conf(6000))
        /\ (-500 <= Score /\ Score <= 500) =>
              (Res.action = "HOLD" /\ Res.confidence = Conf(TableConfidence))

C6_Witness ==
    /\ Returned /\ FullAggregate
    /\ Rsi = 500000 /\ Macd = None
    /\ Score = 501
    /\ Res.action = "BUY"
    /\ Res.confidence = Conf(6000)

ScenarioC == [rsi |-> Some(250000), ma20 |-> Some(1000000), macd |-> Some(5000)]

ScenarioD == [rsi |-> Some(500000), ma20 |-> Some(1000000), macd |-> None]

\* C7: fusion needs overall_score only: decide({rsi:25.0, ma20:100.0,
\* macd:0.5}, {overall_score:-0.5}) returns HOLD with confidence 0.6 and
\* decide({rsi:50.0, ma20:100.0, macd:None}, {overall_score:0.6}) returns BUY
\* with confidence 0.6; neither call fails.
C7_ScoreOnlyFusion ==
    /\ (/\ indicators = ScenarioC
        /\ sentiment = Some([overall_score |-> -500])
        /\ pc \in {"returned", "raised"}) =>
            (Returned /\ Res.action = "HOLD" /\ Res.confidence = Conf(6000))
    /\ (/\ indicators = ScenarioD
        /\ sentiment = Some([overall_score |-> 600])
        /\ pc \in {"returned", "raised"}) =>
            (Returned /\ Res.action = "BUY" /\ Res.confidence = Conf(6000))

\* C8: decide fails with the missing-indicator error if and only if one of
\* rsi, ma20, macd is absent from the mapping; a mapping with all three keys
\* and macd None does not fail with it; the error is raised before any rule
\* is evaluated (no local is assigned, nothing is returned).
C8_MissingIndicator ==
    (pc \notin {"idle", "validate"}) =>
        /\ (raised = "ValueError") <=> ~({"rsi", "ma20", "macd"} \subseteq DOMAIN indicators)
        /\ raised = "ValueError" =>
              (pc = "raised" /\ action = "unset" /\ reason = <<>> /\ result = None)
        /\ (DOMAIN indicators = {"rsi", "ma20", "macd"} /\ indicators["macd"] = None
            /\ indicators["rsi"] # None /\ ~SentimentApplies(sentiment)) =>
              raised = "none"

C8_Witness ==
    /\ pc = "raised"
    /\ raised = "ValueError"
    /\ DOMAIN indicators = {"rsi", "ma20"}
    /\ action = "unset"

\* C9: whenever decide returns, the returned confidence is in [0,1] and has
\* at most 2 decimals.
C9_ConfidenceRange ==
    Returned =>
        /\ 0 <= Res.confidence.m /\ Res.confidence.m <= 10000
        /\ Res.confidence.m % 100 = 0
        /\ Res.confidence.r = 0

\* the contradiction rule on a 0.9 leaves 0.6000000000000001 before the round
C9_Witness ==
    /\ Returned
    /\ confidence = [m |-> 6000, r |-> 1]
    /\ Res.confidence = Conf(6000)

\* the rule of the MACD adjustment that fired, as its clause; None when no
\* adjustment and no MACD-absent note applied
TableMacdClause ==
    CASE TableAction = "BUY" ->
            IF Macd = None THEN Some(CL_MACD_NA)
            ELSE IF Macd[1] > 0 THEN Some(CL_MACD_POS) ELSE None
      [] TableAction = "SELL" ->
            IF Macd = None THEN Some(CL_MACD_NA)
            ELSE IF Macd[1] < 0 THEN Some(CL_MACD_NEG) ELSE None
      [] TableAction = "HOLD" ->
            IF Macd = None THEN Some(CL_MACD_NA26)
            ELSE IF Macd[1] > 100 THEN Some(CL_MACD_BULL)
            ELSE IF Macd[1] < -100 THEN Some(CL_MACD_BEAR) ELSE None

\* a sentiment rule fired: confirmation, strong contradiction or tie-break
SentimentFired ==
    /\ FullAggregate
    /\ \/ TableAction = "BUY" /\ (Score > 200 \/ Score < -400)
       \/ TableAction = "SELL" /\ (Score < -200 \/ Score > 400)
       \/ TableAction = "HOLD" /\ (Score > 500 \/ Score < -500)

\* C10: the returned reason is the base RSI clause, always first and always
\* present, then the MACD clause if a MACD adjustment or MACD-absent note
\* applied, then at most one sentiment clause; a rule that did not fire
\* leaves no clause.
C10_ReasonClauses ==
    Returned =>
        LET r == Res.reason
            n == Len(r)
            base == CASE TableAction = "BUY" -> CL_OVERSOLD
                      [] TableAction = "SELL" -> CL_OVERBOUGHT
                      [] TableAction = "HOLD" -> CL_NEUTRAL
        IN  /\ n >= 1
            /\ r[1] = base
            /\ \A i \in 2..n : r[i] \notin BaseClauses
            /\ \A i \in 1..n : r[i] \in MacdClauses => (i = 2 /\ Some(r[i]) = TableMacdClause)
            /\ TableMacdClause # None => (n >= 2 /\ r[2] = TableMacdClause[1])
            /\ \A i \in 1..n : r[i] \in SentimentClauses => (i = n /\ SentimentFired)
            /\ SentimentFired => r[n] \in SentimentClauses
            /\ n = 1 + (IF TableMacdClause # None THEN 1 ELSE 0)
                     + (IF SentimentFired THEN 1 ELSE 0)

C10_Witness ==
    /\ Returned
    /\ Rsi = 750000 /\ Macd = Some(0)
    /\ Res.reason = <<CL_OVERBOUGHT>>

(***************************************************************************)
(* Indicator engine (app/agents/indicator_agent.py).                       *)
(*                                                                         *)
(* A price series is the sequence of its closes, oldest first, as          *)
(* integers.  RSI and SMA are exact rationals [nan, num, den], nan being   *)
(* the float NaN; an EMA is kept in units of 0.000001, truncated at each   *)
(* step.  The rounded values of a snapshot are [nan, v] with v in units of *)
(* 0.0001, the unit decide reads rsi, ma20 and macd in.                    *)
(***************************************************************************)
RSI_PERIOD == 14
MA_PERIOD == 20
MACD_FAST == 12
MACD_SLOW == 26

Rat(n, d) == [nan |-> FALSE, num |-> n, den |-> d]

NaN == [nan |-> TRUE, num |-> 0, den |-> 1]

\* compute_rsi, lines 36-40: delta = Close.diff() is NaN in the first row;
\* where(delta > 0, 0) and -where(delta < 0, 0) turn NaN into 0
Gain(closes, i) ==
    IF i > 1 /\ closes[i] - closes[i - 1] > 0 THEN closes[i] - closes[i - 1] ELSE 0

Loss(closes, i) ==
    IF i > 1 /\ closes[i] - closes[i - 1] < 0 THEN closes[i - 1] - closes[i] ELSE 0

RECURSIVE SumGains(_, _, _)
SumGains(closes, lo, hi) ==
    IF lo > hi THEN 0 ELSE Gain(closes, hi) + SumGains(closes, lo, hi - 1)

RECURSIVE SumLosses(_, _, _)
SumLosses(closes, lo, hi) ==
    IF lo > hi THEN 0 ELSE Loss(closes, hi) + SumLosses(closes, lo, hi - 1)

RECURSIVE SumCloses(_, _, _)
SumCloses(closes, lo, hi) ==
    IF lo > hi THEN 0 ELSE closes[hi] + SumCloses(closes, lo, hi - 1)

\* compute_rsi, lines 43-50, row i of the series rsi: the rolling means of the
\* last `period` rows are NaN before row `period`; a zero average loss is
\* replaced by NaN, and NaN propagates.  With g and l the window sums,
\* 100 - 100 / (1 + (g/period) / (l/period)) = 100 g / (g + l).
RsiRow(closes, period, i) ==
    IF i < period THEN NaN
    ELSE LET g == SumGains(closes, i - period + 1, i)
             l == SumLosses(closes, i - period + 1, i)
         IN  IF l = 0 THEN NaN ELSE Rat(100 * g, g + l)

\* compute_rsi, lines 32-53
compute_rsi(closes, period) ==
    IF Len(closes) < period THEN Rat(50, 1)
    ELSE IF \A i \in 1..Len(closes) : RsiRow(closes, period, i).nan
    THEN Rat(50, 1)
    ELSE RsiRow(closes, period, Len(closes))

\* SmaRow averaging the first `period` closes instead of the last
SmaRow_Head(closes, period, i) ==
    IF i < period THEN NaN ELSE Rat(SumCloses(closes, 1, period), period)

\* compute_moving_average, line 74, row i of Close.rolling(period).mean()
SmaRow(closes, period, i) ==
    IF i < period THEN NaN ELSE Rat(SumCloses(closes, i - period + 1, i), period)

\* compute_moving_average, lines 70-77; the mean of an empty column is NaN
compute_moving_average(closes, period) ==
    IF Len(closes) < period
    THEN IF closes = <<>> THEN NaN ELSE Rat(SumCloses(closes, 1, Len(closes)), Len(closes))
    ELSE IF \A i \in 1..Len(closes) : SmaRow(closes, period, i).nan
    THEN Rat(closes[Len(closes)], 1)
    ELSE SmaRow(closes, period, Len(closes))

\* Close.ewm(span, adjust=False).mean(), row i: alpha = 2 / (span + 1),
\* ema[1] = close[1], ema[i] = alpha close[i] + (1 - alpha) ema[i-1]
RECURSIVE Ema(_, _, _)
Ema(closes, span, i) ==
    IF i = 1 THEN closes[1] * 1000000
    ELSE (2 * closes[i] * 1000000 + (span - 1) * Ema(closes, span, i - 1)) \div (span + 1)

\* compute_macd with `len(df) <= slow`
compute_macd_NeedsMore(closes, fast, slow) ==
    IF Len(closes) <= slow THEN None
    ELSE Some(Ema(closes, fast, Len(closes)) - Ema(closes, slow, Len(closes)))

\* compute_macd, lines 98-109: None, or the last row of ema_fast - ema_slow
\* (never NaN for numeric closes)
compute_macd(closes, fast, slow) ==
    IF Len(closes) < slow THEN None
    ELSE Some(Ema(closes, fast, Len(closes)) - Ema(closes, slow, Len(closes)))

\* round(x, digits) of a rational, as a count of units 1/scale: nearest,
\* half way to the even count; round(nan, digits) is nan
RoundRat(x, scale) ==
    IF x.nan THEN [nan |-> TRUE, v |-> 0]
    ELSE LET q == (x.num * scale) \div x.den
             rem2 == 2 * ((x.num * scale) % x.den)
             up == rem2 > x.den \/ (rem2 = x.den /\ q % 2 = 1)
         IN  [nan |-> FALSE, v |-> IF up THEN q + 1 ELSE q]

\* in units of 0.0001
Round2Places(x) ==
    LET r == RoundRat(x, 100) IN [nan |-> r.nan, v |-> 100 * r.v]

\* round(macd, 4) of a value in units of 0.000001, in units of 0.0001
Round4Places(m) ==
    LET q == m \div 100
        rem == m % 100
    IN  IF rem > 50 \/ (rem = 50 /\ q % 2 = 1) THEN q + 1 ELSE q

\* compute_indicators treating a history too short for MACD as an error
compute_indicators_NeedsHistory(hasClose, closes) ==
    IF Len(closes) < MACD_SLOW \/ ~hasClose
    THEN [raised |-> "ValueError", value |-> <<>>]
    ELSE [raised |-> "none",
          value |-> [rsi |-> Round2Places(compute_rsi(closes, RSI_PERIOD)),
                     ma20 |-> Round2Places(compute_moving_average(closes, MA_PERIOD)),
                     macd |-> Some(Round4Places(compute_macd(closes, MACD_FAST, MACD_SLOW)[1]))]]

\* compute_indicators, lines 132-144, on a frame with or without a Close
\* column; a frame without rows is empty
compute_indicators(hasClose, closes) ==
    IF closes = <<>> \/ ~hasClose
    THEN [raised |-> "ValueError", value |-> <<>>]
    ELSE LET rsi == compute_rsi(closes, RSI_PERIOD)
             ma20 == compute_moving_average(closes, MA_PERIOD)
             macd == compute_macd(closes, MACD_FAST, MACD_SLOW)
         IN  [raised |-> "none",
              value |-> [rsi |-> Round2Places(rsi),
                         ma20 |-> Round2Places(ma20),
                         macd |-> IF macd # None THEN Some(Round4Places(macd[1])) ELSE None]]

(***************************************************************************)
(* Price series given to the indicator engine: every series of at most     *)
(* MaxLen closes in 1..MaxPrice, with periods up to MaxPeriod, and series  *)
(* long enough for the default periods 14, 20 and 26.                      *)
(***************************************************************************)
MaxLen == 5
MaxPrice == 3
MaxPeriod == 3

SmallSeries == UNION {[1..n -> 1..MaxPrice] : n \in 0..MaxLen}

Ramp(n) == [i \in 1..n |-> i]

Fall(n) == [i \in 1..n |-> n + 1 - i]

Flat(n) == [i \in 1..n |-> 5]

Zigzag(n) == [i \in 1..n |-> IF i % 2 = 1 THEN 5 ELSE 6]

\* one loss in the first step, gains ever after
Dip(n) == [i \in 1..n |-> IF i = 1 THEN 2 ELSE i - 1]

LongLens == {13, 14, 15, 16, 19, 20, 21, 25, 26, 27, 30}

LongSeries == UNION {{Ramp(n), Fall(n), Flat(n), Zigzag(n), Dip(n)} : n \in LongLens}

(***************************************************************************)
(* State machine of the indicator engine: one action per function, from    *)
(* the call to its outcome.                                                *)
(***************************************************************************)
ICall(fn, closes, p1, p2, hasClose) ==
    [fn |-> fn, closes |-> closes, p1 |-> p1, p2 |-> p2, hasClose |-> hasClose]

IReturn(call, outcome) ==
    /\ ipc = "idle"
    /\ ipc' = "done"
    /\ icall' = Some(call)
    /\ iresult' = Some(outcome)
    /\ UNCHANGED <<decideVars, sentVars, pipeVars>>

ComputeRsi ==
    /\ ipc = "idle"
    /\ \/ \E closes \in SmallSeries, period \in 1..MaxPeriod :
            IReturn(ICall("compute_rsi", closes, period, 0, TRUE),
                    [raised |-> "none", value |-> compute_rsi(closes, period)])
       \/ \E closes \in LongSeries :
            IReturn(ICall("compute_rsi", closes, RSI_PERIOD, 0, TRUE),
                    [raised |-> "none", value |-> compute_rsi(closes, RSI_PERIOD)])

ComputeMovingAverage ==
    /\ ipc = "idle"
    /\ \/ \E closes \in SmallSeries, period \in 1..MaxPeriod :
            IReturn(ICall("compute_moving_average", closes, period, 0, TRUE),
                    [raised |-> "none", value |-> compute_moving_average(closes, period)])
       \/ \E closes \in LongSeries :
            IReturn(ICall("compute_moving_average", closes, MA_PERIOD, 0, TRUE),
                    [raised |-> "none", value |-> compute_moving_average(closes, MA_PERIOD)])

ComputeMacd ==
    /\ ipc = "idle"
    /\ \/ \E closes \in SmallSeries, slow \in 2..MaxPeriod : \E fast \in 1..(slow - 1) :
            IReturn(ICall("compute_macd", closes, fast, slow, TRUE),
                    [raised |-> "none", value |-> compute_macd(closes, fast, slow)])
       \/ \E closes \in LongSeries :
            IReturn(ICall("compute_macd", closes, MACD_FAST, MACD_SLOW, TRUE),
                    [raised |-> "none", value |-> compute_macd(closes, MACD_FAST, MACD_SLOW)])

ComputeIndicators ==
    /\ ipc = "idle"
    /\ \E closes \in SmallSeries \cup LongSeries, hasClose \in BOOLEAN :
            IReturn(ICall("compute_indicators", closes, 0, 0, hasClose),
                    compute_indicators(hasClose, closes))

NextInd ==
    \/ ComputeRsi
    \/ ComputeMovingAverage
    \/ ComputeMacd
    \/ ComputeIndicators

SpecInd == Init /\ [][NextInd]_vars

\* what the indicator engine was called with, and what came out
ICl == icall[1]
IOut == iresult[1]
IDone(fn) == ipc = "done" /\ ICl.fn = fn

(***************************************************************************)
(* Properties of the indicator engine.                                     *)
(***************************************************************************)
RECURSIVE Total(_)
Total(seq) == IF seq = <<>> THEN 0 ELSE Head(seq) + Total(Tail(seq))

\* no close is below the close before it
NeverFalls(closes) == \A i \in 2..Len(closes) : closes[i] >= closes[i - 1]

\* C11: on every non-empty series compute_rsi returns a value in [0,100], and
\* exactly 100 when the series has enough history and no loss; 30 strictly
\* increasing closes give 100.0.
C11_RsiRange ==
    (IDone("compute_rsi") /\ ICl.closes # <<>>) =>
        /\ ~IOut.value.nan
        /\ 0 <= IOut.value.num /\ IOut.value.num <= 100 * IOut.value.den
        /\ (Len(ICl.closes) >= ICl.p1 + 1 /\ NeverFalls(ICl.closes)) =>
              IOut.value.num = 100 * IOut.value.den
        /\ ICl.closes = Ramp(30) /\ ICl.p1 = 14 => IOut.value.num = 100 * IOut.value.den

\* C12: with fewer than period + 1 closes compute_rsi returns exactly 50.0.
C12_RsiShortHistory ==
    (IDone("compute_rsi") /\ Len(ICl.closes) < ICl.p1 + 1) =>
        /\ IOut.raised = "none"
        /\ ~IOut.value.nan
        /\ IOut.value.num = 50 * IOut.value.den

\* C13: on a non-empty series compute_moving_average returns the mean of all
\* closes when there are fewer than period of them, and the mean of the last
\* period closes otherwise.
C13_MovingAverage ==
    (IDone("compute_moving_average") /\ ICl.closes # <<>>) =>
        LET n == Len(ICl.closes)
            p == ICl.p1
        IN  /\ ~IOut.value.nan
            /\ n < p => IOut.value.num * n = Total(ICl.closes) * IOut.value.den
            /\ n >= p =>
                 IOut.value.num * p = Total(SubSeq(ICl.closes, n - p + 1, n)) * IOut.value.den

\* 30 closes 1..30, period 20: the mean of 11..30 is 20.5
C13_Witness ==
    /\ IDone("compute_moving_average")
    /\ ICl.closes = Ramp(30) /\ ICl.p1 = 20
    /\ 2 * IOut.value.num = 41 * IOut.value.den

\* C14: compute_macd returns None if and only if the series has fewer than
\* slow closes.
C14_MacdAbsent ==
    IDone("compute_macd") => ((IOut.value = None) <=> (Len(ICl.closes) < ICl.p2))

C14_Witness ==
    /\ IDone("compute_macd")
    /\ Len(ICl.closes) = 26 /\ ICl.p2 = 26
    /\ IOut.value # None

\* C15: compute_indicators fails with the empty-input error on an empty
\* series and on no series that has closes: every non-empty series, however
\* short, gives a snapshot with rsi, ma20 and macd (macd possibly None).
C15_EmptyInput ==
    (IDone("compute_indicators") /\ ICl.hasClose) =>
        /\ (IOut.raised = "ValueError") <=> (ICl.closes = <<>>)
        /\ ICl.closes # <<>> =>
              /\ IOut.raised = "none"
              /\ DOMAIN IOut.value = {"rsi", "ma20", "macd"}
              /\ (Len(ICl.closes) < 26 => IOut.value.macd = None)

C15_Witness ==
    /\ IDone("compute_indicators") /\ ICl.hasClose
    /\ Len(ICl.closes) = 1
    /\ IOut.raised = "none"
    /\ IOut.value.macd = None

(***************************************************************************)
(* Sentiment aggregator (app/agents/sentiment_agent.py, SentimentAgent).   *)
(*                                                                         *)
(* A text is what the keyword fallback sees of it: its counts of positive  *)
(* and negative keywords.  The remote scorer (the Groq completion and the  *)
(* parsing of its answer) is an outcome chosen per call: the call raises,  *)
(* the answer does not parse, or it is JSON with or without a              *)
(* sentiment_score.  Raw scores are in units of 0.0001; values rounded to  *)
(* 3 decimals (overall_score, individual_scores) are in units of 0.001,    *)
(* the unit decide reads overall_score in.  A confidence is a record       *)
(* [m, r] as in decide, r < 0 marking a value below m by less than one     *)
(* unit (the square root was not exact).                                   *)
(***************************************************************************)
SENT_POSITIVE == 1000
FALLBACK_BASE == 5000
FALLBACK_STEP == 1500
FALLBACK_CAP == 9000
SCORE_BOUND == 10000
SINGLE_CONFIDENCE == 7000

MinInt(a, b) == IF a < b THEN a ELSE b

MaxInt(a, b) == IF a > b THEN a ELSE b

RECURSIVE SumScores(_)
SumScores(ss) == IF ss = <<>> THEN 0 ELSE Head(ss) + SumScores(Tail(ss))

RECURSIVE SumSquares(_)
SumSquares(ss) == IF ss = <<>> THEN 0 ELSE Head(ss) * Head(ss) + SumSquares(Tail(ss))

\* the largest k in lo..hi with k * k <= v
RECURSIVE SqrtBetween(_, _, _)
SqrtBetween(v, lo, hi) ==
    IF lo = hi THEN lo
    ELSE LET mid == (lo + hi + 1) \div 2
         IN  IF mid * mid <= v THEN SqrtBetween(v, mid, hi) ELSE SqrtBetween(v, lo, mid - 1)

ISqrt(v) == SqrtBetween(v, 0, 46340)

\* _fallback_sentiment_analysis, lines 180-195
_fallback_sentiment_analysis(text) ==
    LET net_score == text.pos - text.neg
    IN  IF net_score > 0
        THEN [score |-> MinInt(FALLBACK_BASE + (net_score - 1) * FALLBACK_STEP, FALLBACK_CAP),
              interpretation |-> [source |-> "fallback", text |-> text,
                                  says |-> "Positive sentiment detected"]]
        ELSE IF net_score < 0
        THEN [score |-> MaxInt(-FALLBACK_BASE + (net_score + 1) * FALLBACK_STEP, -FALLBACK_CAP),
              interpretation |-> [source |-> "fallback", text |-> text,
                                  says |-> "Negative sentiment detected"]]
        ELSE [score |-> 0,
              interpretation |-> [source |-> "fallback", text |-> text,
                                  says |-> "Neutral sentiment"]]

\* _analyze_single_text without the handlers of lines 148-154: a call that
\* raised or an answer that did not parse counts as a neutral remote score
_analyze_single_text_NoFallback(text, outcome) ==
    [score |-> IF outcome.kind = "json" /\ outcome.hasScore
               THEN MaxInt(-SCORE_BOUND, MinInt(SCORE_BOUND, outcome.score))
               ELSE 0,
     interpretation |-> [source |-> "remote", text |-> text, says |-> "interpretation"]]

\* _analyze_single_text, lines 102-154, given the outcome of the remote call
_analyze_single_text(text, outcome) ==
    IF outcome.kind = "json"
    THEN [score |-> IF outcome.hasScore
                    THEN MaxInt(-SCORE_BOUND, MinInt(SCORE_BOUND, outcome.score))
                    ELSE 0,
          interpretation |-> [source |-> "remote", text |-> text, says |-> "interpretation"]]
    ELSE _fallback_sentiment_analysis(text)

\* The last addition of sum(scores) over three scores, as <<partial sum,
\* addend>>, whose IEEE-754 double result lies one unit in the last place
\* beyond 0.3 or -0.3 (0.1 + 0.1 + 0.1 = 0.30000000000000004).  These are
\* the additions among the scores drawn below that put the double
\* sum / len on the other side of a threshold than the exact mean.
SUM_ABOVE == {<<2000, 1000>>, <<4000, -1000>>}

SUM_BELOW == {<<-2000, -1000>>, <<6000, -9000>>, <<-8000, 5000>>, <<-4000, 1000>>}

\* line 73: avg_score = sum(scores) / len(scores), as the exact quotient
\* sum / n and the side r on which the double lies of it
avg_score(ss) ==
    [sum |-> SumScores(ss),
     n |-> Len(ss),
     r |-> IF Len(ss) # 3 THEN 0
           ELSE IF <<ss[1] + ss[2], ss[3]>> \in SUM_ABOVE THEN 1
           ELSE IF <<ss[1] + ss[2], ss[3]>> \in SUM_BELOW THEN -1
           ELSE 0]

\* avg > bound, avg and bound in units of 0.0001
AvgGreater(avg, bound) ==
    \/ avg.sum > bound * avg.n
    \/ avg.sum = bound * avg.n /\ avg.r > 0

AvgLess(avg, bound) ==
    \/ avg.sum < bound * avg.n
    \/ avg.sum = bound * avg.n /\ avg.r < 0

\* _determine_overall_sentiment, lines 208-213
_determine_overall_sentiment(avg) ==
    IF AvgGreater(avg, SENT_POSITIVE) THEN "POSITIVE"
    ELSE IF AvgLess(avg, -SENT_POSITIVE) THEN "NEGATIVE"
    ELSE "NEUTRAL"

\* _calculate_confidence returning the capped spread itself
_calculate_confidence_Spread(ss) ==
    LET n == Len(ss)
        radicand == n * SumSquares(ss) - SumScores(ss) * SumScores(ss)
        root == ISqrt(radicand)
        std_dev == root \div n
    IN  IF n = 0 THEN Conf(0)
        ELSE IF n = 1 THEN Conf(SINGLE_CONFIDENCE)
        ELSE Conf(MinInt(std_dev, SCORE_BOUND))

\* _calculate_confidence, lines 227-241.  With S the sum and Q the sum of
\* squares of the n scores, the variance is (n Q - S S) / (n n) and its
\* square root sqrt(n Q - S S) / n.
_calculate_confidence(ss) ==
    LET n == Len(ss)
        radicand == n * SumSquares(ss) - SumScores(ss) * SumScores(ss)
        root == ISqrt(radicand)
        std_dev == root \div n
        exact == root * root = radicand /\ root % n = 0
    IN  IF n = 0 THEN Conf(0)
        ELSE IF n = 1 THEN Conf(SINGLE_CONFIDENCE)
        ELSE IF std_dev >= SCORE_BOUND THEN Conf(0)
        ELSE [m |-> SCORE_BOUND - std_dev, r |-> IF exact THEN 0 ELSE -1]

\* round(x, 3) of a raw score or of avg_score = sum / n, in units of 0.001
Round3Places(sum, n) == RoundRat(Rat(sum, n), 1).v

Round3Score(sc) == RoundRat(Rat(sc, 10), 1).v

\* line 69 putting the new score in front
AppendScore_Front(ss, sc) == <<sc>> \o ss

\* line 69
AppendScore(ss, sc) == Append(ss, sc)

\* analyze_sentiment, lines 73-88
Aggregate(txts, ss, interps) ==
    LET sum == SumScores(ss)
        n == Len(ss)
        overall_sentiment == _determine_overall_sentiment(avg_score(ss))
    IN  [texts_analyzed |-> Len(txts),
         overall_sentiment |-> overall_sentiment,
         overall_score |-> Round3Places(sum, 10 * n),
         individual_scores |-> [i \in 1..n |-> Round3Score(ss[i])],
         interpretations |-> interps,
         confidence |-> Round2(_calculate_confidence(ss)),
         summary |-> [count |-> Len(txts), sentiment |-> overall_sentiment]]

(***************************************************************************)
(* Texts and remote outcomes.                                              *)
(***************************************************************************)
MaxTexts == 3

TextKinds == {[pos |-> 0, neg |-> 0], [pos |-> 1, neg |-> 0], [pos |-> 0, neg |-> 5]}

TextLists == UNION {[1..n -> TextKinds] : n \in 0..MaxTexts}

RemoteScores == {-15000, -1000, 1000, 1004, 15000}

RemoteOutcomes ==
    {[kind |-> "error", hasScore |-> FALSE, score |-> 0],
     [kind |-> "unparseable", hasScore |-> FALSE, score |-> 0],
     [kind |-> "json", hasScore |-> FALSE, score |-> 0]}
        \cup {[kind |-> "json", hasScore |-> TRUE, score |-> v] : v \in RemoteScores}

(***************************************************************************)
(* State machine of one call of analyze_sentiment.                         *)
(***************************************************************************)
\* lines 55-64: an empty list returns at once
Analyze(txts) ==
    /\ spc = "idle"
    /\ texts' = txts
    /\ IF txts = <<>>
       THEN spc' = "done" /\ sresult' = Some(EmptyAggregate)
       ELSE spc' = "scoring" /\ sresult' = sresult
    /\ UNCHANGED <<calls, scores, interpretations>>
    /\ UNCHANGED <<decideVars, indVars, pipeVars>>

AnalyzeSentiment == spc = "idle" /\ \E txts \in TextLists : Analyze(txts)

\* lines 67-70: one turn of the loop, on the next text
ScoreText ==
    /\ spc = "scoring"
    /\ Len(scores) < Len(texts)
    /\ \E outcome \in RemoteOutcomes :
         LET text == texts[Len(scores) + 1]
             one == _analyze_single_text(text, outcome)
         IN  /\ calls' = Append(calls, [text |-> text, outcome |-> outcome])
             /\ scores' = AppendScore(scores, one.score)
             /\ interpretations' = Append(interpretations, one.interpretation)
    /\ UNCHANGED <<spc, texts, sresult>>
    /\ UNCHANGED <<decideVars, indVars, pipeVars>>

\* lines 73-88
ReturnAggregate ==
    /\ spc = "scoring"
    /\ Len(scores) = Len(texts)
    /\ sresult' = Some(Aggregate(texts, scores, interpretations))
    /\ spc' = "done"
    /\ UNCHANGED <<texts, calls, scores, interpretations>>
    /\ UNCHANGED <<decideVars, indVars, pipeVars>>

NextSent ==
    \/ AnalyzeSentiment
    \/ ScoreText
    \/ ReturnAggregate

SpecSent == Init /\ [][NextSent]_vars

(***************************************************************************)
(* Properties of the sentiment aggregator.                                 *)
(***************************************************************************)
SRes == sresult[1]

Aggregated == spc = "done" /\ texts # <<>>

\* n * n * variance of the scores: n * (sum of squares) - (sum)^2
Radicand(ss) == Len(ss) * SumSquares(ss) - SumScores(ss) * SumScores(ss)

AllAgree(ss) == \A i, j \in 1..Len(ss) : ss[i] = ss[j]

\* C16: aggregating an empty list of texts returns, without a call of the
\* scorer, an aggregate with texts_analyzed 0, overall_sentiment NEUTRAL,
\* overall_score 0, an error marker and confidence 0.0.
C16_EmptyAggregate ==
    (spc = "done" /\ texts = <<>>) =>
        /\ calls = <<>>
        /\ sresult # None
        /\ SRes.texts_analyzed = 0
        /\ SRes.overall_sentiment = "NEUTRAL"
        /\ SRes.overall_score = 0
        /\ "error" \in DOMAIN SRes
        /\ "confidence" \in DOMAIN SRes
        /\ SRes.confidence = Conf(0)

\* C17 as stated: the aggregate's confidence is exactly 0.7 for one sample
\* and exactly 1 - min(population standard deviation, 1) for two or more,
\* and lies in [0, 1].  With d = 1 - confidence: d = 1 when the deviation
\* is 1 or more, and (d n)^2 = n^2 variance otherwise.
C17_ExactConfidence ==
    Aggregated =>
        LET n == Len(scores)
            d == SCORE_BOUND - SRes.confidence.m
        IN  /\ SRes.confidence.r = 0
            /\ 0 <= SRes.confidence.m /\ SRes.confidence.m <= SCORE_BOUND
            /\ IF n = 1 THEN SRes.confidence = Conf(SINGLE_CONFIDENCE)
               ELSE IF Radicand(scores) >= (SCORE_BOUND * n) * (SCORE_BOUND * n)
               THEN d = SCORE_BOUND
               ELSE (d * n) * (d * n) = Radicand(scores)

\* Lists of n scores to compare the spread of the scored list with
SpreadSamples(n) ==
    {[i \in 1..n |-> IF i = 1 THEN a ELSE b] : a, b \in {-10000, 0, 1000, 10000}}

\* C17: the aggregate's confidence is exactly 0.7 for one sample and, for two
\* or more, 1 - min(population standard deviation, 1) rounded to 2 decimals:
\* a multiple of 0.01 in [0, 1] within 0.005 of the unrounded value.  It is
\* 1 when all samples agree, and a list of as many samples with at least
\* the spread of this one gets no greater a confidence.
C17_RoundedConfidence ==
    Aggregated =>
        LET n == Len(scores)
            c == SRes.confidence
            d == SCORE_BOUND - c.m
            lo == (d - 50) * n
            hi == (d + 50) * n
        IN  /\ c.r = 0 /\ c.m % 100 = 0
            /\ 0 <= c.m /\ c.m <= SCORE_BOUND
            /\ n = 1 => c = Conf(SINGLE_CONFIDENCE)
            /\ n >= 2 =>
                 /\ lo > 0 => lo * lo <= Radicand(scores)
                 /\ d < SCORE_BOUND => Radicand(scores) <= hi * hi
                 /\ AllAgree(scores) => c.m = SCORE_BOUND
                 /\ \A other \in SpreadSamples(n) :
                      Radicand(other) >= Radicand(scores) =>
                          ~FLess(c, Round2(_calculate_confidence(other)))

\* three samples that disagree, with a confidence strictly between 0 and 1
C17_Witness ==
    /\ Aggregated /\ Len(scores) = 3 /\ ~AllAgree(scores)
    /\ SRes.confidence.m > 0 /\ SRes.confidence.m < SCORE_BOUND

\* The score and the interpretation of the i-th call belong to texts[i]
ScoredInOrder ==
    /\ Len(calls) = Len(texts)
    /\ SRes.texts_analyzed = Len(texts)
    /\ DOMAIN SRes.individual_scores = 1..Len(texts)
    /\ DOMAIN SRes.interpretations = 1..Len(texts)
    /\ \A i \in 1..Len(texts) :
         LET one == _analyze_single_text(texts[i], calls[i].outcome)
             gap == 10 * SRes.individual_scores[i] - one.score
         IN  /\ calls[i].text = texts[i]
             /\ -5 <= gap /\ gap <= 5
             /\ SRes.interpretations[i] = one.interpretation
             /\ SRes.interpretations[i].text = texts[i]

\* C18 as stated: every text is scored once in input order and
\* overall_score is the mean of the scores, in [-1, 1].
C18_MeanOfScores ==
    Aggregated =>
        /\ ScoredInOrder
        /\ SRes.overall_score * 10 * Len(scores) = SumScores(scores)
        /\ -1000 <= SRes.overall_score /\ SRes.overall_score <= 1000

\* C18: every text is scored once in input order, individual_scores[i] and
\* interpretations[i] belong to texts[i] (the scores rounded to 3 decimals),
\* texts_analyzed = number of texts = number of scores, and overall_score
\* is the mean of the scores rounded to 3 decimals, in [-1, 1].
C18_RoundedMean ==
    Aggregated =>
        LET n == Len(scores)
            gap == SRes.overall_score * 10 * n - SumScores(scores)
        IN  /\ ScoredInOrder
            /\ -5 * n <= gap /\ gap <= 5 * n
            /\ -1000 <= SRes.overall_score /\ SRes.overall_score <= 1000

\* three texts, the first two different and differently scored, whose mean
\* is not a multiple of 0.001
C18_Witness ==
    /\ Aggregated /\ Len(texts) = 3
    /\ texts[1] # texts[2]
    /\ SRes.individual_scores[1] # SRes.individual_scores[2]
    /\ SRes.overall_score * 10 * Len(scores) # SumScores(scores)

\* C19: the label of an aggregate is the one the thresholds give for the
\* overall_score reported in the same aggregate: POSITIVE above 0.1,
\* NEGATIVE below -0.1, NEUTRAL otherwise.
C19_LabelMatchesScore ==
    Aggregated =>
        SRes.overall_sentiment =
            IF SRes.overall_score > 100 THEN "POSITIVE"
            ELSE IF SRes.overall_score < -100 THEN "NEGATIVE"
            ELSE "NEUTRAL"

\* C20: aggregation never fails: while it scores, the loop has a next text
\* or the aggregate is due, and it ends with an aggregate for all the
\* texts; and a text whose remote call raised or whose answer did not
\* parse has the keyword score of that text while the other texts keep
\* their remote scores, kept within [-1, 1].
C20_PerItemFallback ==
    /\ spc \in {"idle", "scoring", "done"}
    /\ spc = "scoring" => texts # <<>> /\ Len(scores) <= Len(texts)
    /\ spc = "done" => sresult # None /\ SRes.texts_analyzed = Len(texts)
    /\ Len(calls) = Len(scores) /\ Len(calls) = Len(interpretations)
    /\ \A i \in 1..Len(calls) :
         LET out == calls[i].outcome
             text == calls[i].text
         IN  IF out.kind = "json"
             THEN /\ interpretations[i].source = "remote"
                  /\ -SCORE_BOUND <= scores[i] /\ scores[i] <= SCORE_BOUND
                  /\ (out.hasScore /\ -SCORE_BOUND <= out.score /\ out.score <= SCORE_BOUND)
                        => scores[i] = out.score
             ELSE /\ interpretations[i].source = "fallback"
                  /\ scores[i] = _fallback_sentiment_analysis(text).score
                  /\ (text.pos > text.neg) => scores[i] >= FALLBACK_BASE
                  /\ (text.pos < text.neg) => scores[i] <= -FALLBACK_BASE
                  /\ (text.pos = text.neg) => scores[i] = 0

\* an aggregate of three texts: the first call raised, the second answered
\* a score, the third answered something that did not parse
C20_Witness ==
    /\ Aggregated /\ Len(texts) = 3
    /\ calls[1].outcome.kind = "error" /\ calls[1].text.pos > 0
    /\ calls[2].outcome.kind = "json" /\ calls[2].outcome.hasScore
    /\ calls[3].outcome.kind = "unparseable"
    /\ scores[1] = FALLBACK_BASE /\ scores[2] = calls[2].outcome.score

(***************************************************************************)
(* Further properties of decide.                                           *)
(***************************************************************************)
\* the positions of the sentiment clauses in the returned reason
SentimentClausesAt == {i \in 1..Len(Res.reason) : Res.reason[i] \in SentimentClauses}

Downgraded ==
    \E i \in 1..Len(Res.reason) : Res.reason[i] \in {CL_CAUTION_NEG, CL_CAUTION_POS}

\* C26: at most one sentiment rule fires per call of decide: an action the
\* contradiction rule downgraded to HOLD is not promoted by the tie-break
\* in the same call, so a base BUY (rsi < 30) never ends as SELL and a base
\* SELL (rsi > 70) never ends as BUY, whatever the score.
C26_OneSentimentRule ==
    Returned =>
        /\ Cardinality(SentimentClausesAt) <= 1
        /\ Downgraded => Res.action = "HOLD"
        /\ Rsi < 300000 => Res.action \in {"BUY", "HOLD"}
        /\ Rsi > 700000 => Res.action \in {"SELL", "HOLD"}
        /\ (Rsi < 300000 /\ FullAggregate /\ Score < -500) => Res.action = "HOLD"
        /\ (Rsi > 700000 /\ FullAggregate /\ Score > 500) => Res.action = "HOLD"

\* a base BUY with a score below the tie-break threshold ends as HOLD
C26_Witness ==
    /\ Returned /\ FullAggregate
    /\ Rsi < 300000 /\ Score < -500
    /\ Downgraded
    /\ Res.action = "HOLD"

\* C27: whenever decide returns, the confidence is one of 0.5, 0.6, 0.8, 0.9
\* and 0.95: the contradiction rule leaves 0.5 or 0.6, above its 0.4 floor,
\* and no confidence is below 0.5 or reaches 1.0.
C27_ConfidenceValues ==
    Returned =>
        /\ Res.confidence \in {Conf(5000), Conf(6000), Conf(8000), Conf(9000), Conf(9500)}
        /\ Downgraded => /\ Res.confidence \in {Conf(5000), Conf(6000)}
                         /\ FLess(Conf(4000), confidence)

\* a confirmed 0.9 is capped at 0.95
C27_Witness ==
    /\ Returned /\ FullAggregate
    /\ Rsi < 300000 /\ Macd # None /\ Macd[1] > 0 /\ Score > 200
    /\ Res.confidence = Conf(9500)

(***************************************************************************)
(* Further properties of the indicator engine.                             *)
(***************************************************************************)
RECURSIVE Pow(_, _)
Pow(b, e) == IF e = 0 THEN 1 ELSE b * Pow(b, e - 1)

\* Wilder's smoothing of the gains (which = "gain") or losses up to row i,
\* i >= period + 1: the simple mean of the first `period` steps, then
\* avg = (avg (period - 1) + new) / period at each later row.  The value is
\* the average times period^(i - period).
RECURSIVE WilderSum(_, _, _, _)
WilderSum(which, closes, period, i) ==
    IF i = period + 1
    THEN IF which = "gain" THEN SumGains(closes, 2, i) ELSE SumLosses(closes, 2, i)
    ELSE WilderSum(which, closes, period, i - 1) * (period - 1)
            + (IF which = "gain" THEN Gain(closes, i) ELSE Loss(closes, i))
                * Pow(period, i - period - 1)

\* the reference RSI of a series of at least period + 1 closes
WilderRsi(closes, period) ==
    LET g == WilderSum("gain", closes, period, Len(closes))
        l == WilderSum("loss", closes, period, Len(closes))
    IN  IF l = 0 THEN Rat(100, 1) ELSE Rat(100 * g, g + l)

\* C24: for every series of at least period + 1 closes compute_rsi returns
\* Wilder's smoothed RSI (checked on the series of at most period + 3
\* closes).
C24_WilderRsi ==
    (/\ IDone("compute_rsi")
     /\ Len(ICl.closes) >= ICl.p1 + 1
     /\ Len(ICl.closes) <= ICl.p1 + 3) =>
        LET ref == WilderRsi(ICl.closes, ICl.p1)
        IN  /\ ~IOut.value.nan
            /\ IOut.value.num * ref.den = ref.num * IOut.value.den

\* the same on the series that have a loss in the window of the last
\* `period` rows, where compute_rsi returns a number
C24_WilderRsiWithLosses ==
    (/\ IDone("compute_rsi")
     /\ Len(ICl.closes) >= ICl.p1 + 1
     /\ Len(ICl.closes) <= ICl.p1 + 3
     /\ SumLosses(ICl.closes, Len(ICl.closes) - ICl.p1 + 1, Len(ICl.closes)) > 0) =>
        LET ref == WilderRsi(ICl.closes, ICl.p1)
        IN  /\ ~IOut.value.nan
            /\ IOut.value.num * ref.den = ref.num * IOut.value.den

(***************************************************************************)
(* Analysis pipeline (app/agents/planner_agent.py, analyze_stock) and the  *)
(* report made of its result (app/agents/report_agent.py).                 *)
(*                                                                         *)
(* What the outside world answers to a request is drawn when the request   *)
(* arrives: the outcome of the price download (it raises, it has no rows,  *)
(* or it is a frame of closes) and that of the news and the scorer (no     *)
(* news, no API key, the agent raising, or the scores of the texts).       *)
(* decide is given the snapshot of compute_indicators as it is: rsi and    *)
(* ma20 are [nan, v] and macd is None or Some(v), v in units of 0.0001.    *)
(***************************************************************************)
\* data_agent.fetch_prices that returns a frame without rows as it is
fetch_prices_EmptyFrame(outcome) ==
    IF outcome.kind = "raises"
    THEN [raised |-> "ValueError", value |-> <<>>]
    ELSE [raised |-> "none", value |-> outcome.closes]

\* data_agent.fetch_prices, lines 30-45: whatever is raised inside, the
\* ValueError of the empty frame included, leaves as a ValueError
fetch_prices(outcome) ==
    IF outcome.kind = "raises" \/ outcome.closes = <<>>
    THEN [raised |-> "ValueError", value |-> <<>>]
    ELSE [raised |-> "none", value |-> outcome.closes]

\* the news of a request as texts, and the interpretations of their scores
NewsTexts(n) == [i \in 1..n |-> [pos |-> 0, neg |-> 0]]

NewsInterpretations(n) ==
    [i \in 1..n |-> [source |-> "remote", text |-> NewsTexts(n)[i], says |-> "interpretation"]]

\* planner_agent, lines 54-72: the sentiment_result and the calls made
SentimentStep(news) ==
    CASE news.kind = "none" ->
            [sentiment_result |-> None, calls |-> <<"fetch_news">>]
      [] news.kind = "no_key" ->
            [sentiment_result |-> None, calls |-> <<"fetch_news">>]
      [] news.kind = "raises" ->
            [sentiment_result |-> Some(SubstituteSentiment),
             calls |-> <<"fetch_news", "analyze_sentiment">>]
      [] news.kind = "scored" ->
            [sentiment_result |->
                Some(Aggregate(NewsTexts(Len(news.scores)), news.scores,
                               NewsInterpretations(Len(news.scores)))),
             calls |-> <<"fetch_news", "analyze_sentiment">>]

\* decide, lines 44-137, on a snapshot: every comparison with a NaN rsi is
\* false, which selects the else branch of line 78
decide(ind, sent) ==
    IF ~HasRequiredKeys(ind)
    THEN [raised |-> "ValueError", value |-> <<>>]
    ELSE LET base == IF ind.rsi.nan THEN HoldBranch(ind.macd)
                     ELSE BaseRule(ind.rsi.v, ind.macd)
         IN  IF ~SentimentApplies(sent)
             THEN [raised |-> "none", value |-> Some(ReturnValue(base))]
             ELSE IF "overall_sentiment" \notin DOMAIN sent[1]
             THEN [raised |-> "KeyError", value |-> <<>>]
             ELSE [raised |-> "none",
                   value |-> Some(ReturnValue(SentimentRule(base, sent[1].overall_score)))]

\* planner_agent, lines 120-134
ErrorResult(kind) ==
    [status |-> "error",
     error |-> IF kind = "ValueError" THEN "str(e)" ELSE "Unexpected error: str(e)"]

\* planner_agent, lines 107-118
SuccessResult(loc) ==
    [status |-> "success",
     data |-> [indicators |-> loc.indicators[1],
               sentiment |-> loc.sentiment_result,
               decision |-> loc.decision[1],
               price_history_length |-> Len(loc.df[1])]]

\* ReportAgent.generate_report, lines 62-128, on a result of analyze_stock:
\* line 99 calls sentiment.get on the sentiment of the result, line 115
\* compares the macd of the snapshot with 0.005
generate_report(res) ==
    IF "error" \in DOMAIN res
    THEN [raised |-> "none", status |-> "error"]
    ELSE IF res.data.sentiment = None
    THEN [raised |-> "AttributeError", status |-> "none"]
    ELSE IF res.data.indicators.macd = None
    THEN [raised |-> "TypeError", status |-> "none"]
    ELSE [raised |-> "none", status |-> "success"]

\* LocalOf on a module-level variable: the value another request in
\* progress has left there, if any
LocalOf_Shared(name, r) ==
    IF \E q \in Requests \ {r} : plocal[q][name] # None
    THEN plocal[CHOOSE q \in Requests \ {r} : plocal[q][name] # None][name]
    ELSE plocal[r][name]

\* the local `name` of request r, on the frame of that call
LocalOf(name, r) == plocal[r][name]

\* analyze_stock, lines 49-134, run from the first line to the last on the
\* answers env, with no other request in progress
analyze_stock(env) ==
    LET df == fetch_prices(env.prices)
        sent == SentimentStep(env.news).sentiment_result
        ind == compute_indicators(TRUE, df.value)
        dec == decide(ind.value, sent)
    IN  IF df.raised # "none" THEN ErrorResult(df.raised)
        ELSE IF ind.raised # "none" THEN ErrorResult(ind.raised)
        ELSE IF dec.raised # "none" THEN ErrorResult(dec.raised)
        ELSE SuccessResult([df |-> Some(df.value), sentiment_result |-> sent,
                            indicators |-> Some(ind.value), decision |-> dec.value])

(***************************************************************************)
(* Answers of the outside world.                                           *)
(***************************************************************************)
\* n closes rising by one, the last one falling back by two
Pullback(n) == [i \in 1..n |-> IF i = n THEN n - 3 ELSE i]

PipeSeries == {<<3>>, Fall(16), Fall(30), Pullback(16), Pullback(30), Zigzag(30), Dip(16)}

PriceOutcomes ==
    {[kind |-> "raises", closes |-> <<>>], [kind |-> "frame", closes |-> <<>>]}
        \cup {[kind |-> "frame", closes |-> c] : c \in PipeSeries}

NewsScores == {<<10000>>, <<-10000>>, <<1000, 1000, 1000>>}

NewsOutcomes ==
    {[kind |-> k, scores |-> <<>>] : k \in {"none", "no_key", "raises"}}
        \cup {[kind |-> "scored", scores |-> ss] : ss \in NewsScores}

Envs == {[prices |-> p, news |-> n] : p \in PriceOutcomes, n \in NewsOutcomes}

(***************************************************************************)
(* State machine of the requests: analyze_stock, one action per stage,     *)
(* then the report of the report endpoint.                                 *)
(***************************************************************************)
Env(r) == penv[r][1]

Logged(r, names) == ptrace' = [ptrace EXCEPT ![r] = ptrace[r] \o names]

Finish(r, res) ==
    /\ presult' = [presult EXCEPT ![r] = Some(res)]
    /\ ppc' = [ppc EXCEPT ![r] = "done"]

\* a request arrives
Arrive(r, env) ==
    /\ ppc[r] = "idle"
    /\ penv' = [penv EXCEPT ![r] = Some(env)]
    /\ ppc' = [ppc EXCEPT ![r] = "fetch_prices"]
    /\ UNCHANGED <<plocal, presult, preport, ptrace>>
    /\ UNCHANGED <<decideVars, indVars, sentVars>>

Request == \E r \in Requests : ppc[r] = "idle" /\ \E env \in Envs : Arrive(r, env)

\* line 51, and lines 120-126 when it raises
FetchPrices(r) ==
    /\ ppc[r] = "fetch_prices"
    /\ LET df == fetch_prices(Env(r).prices)
       IN  IF df.raised # "none"
           THEN /\ Finish(r, ErrorResult(df.raised))
                /\ plocal' = plocal
           ELSE /\ plocal' = [plocal EXCEPT ![r].df = Some(df.value)]
                /\ ppc' = [ppc EXCEPT ![r] = "sentiment"]
                /\ presult' = presult
    /\ Logged(r, <<"fetch_prices">>)
    /\ UNCHANGED <<penv, preport>>
    /\ UNCHANGED <<decideVars, indVars, sentVars>>

\* lines 54-72
AnalyzeNews(r) ==
    /\ ppc[r] = "sentiment"
    /\ LET step == SentimentStep(Env(r).news)
       IN  /\ plocal' = [plocal EXCEPT ![r].sentiment_result = step.sentiment_result]
           /\ Logged(r, step.calls)
    /\ ppc' = [ppc EXCEPT ![r] = "indicators"]
    /\ UNCHANGED <<penv, presult, preport>>
    /\ UNCHANGED <<decideVars, indVars, sentVars>>

\* line 75, and lines 120-126 when it raises
ComputeSnapshot(r) ==
    /\ ppc[r] = "indicators"
    /\ LET ind == compute_indicators(TRUE, LocalOf("df", r)[1])
       IN  IF ind.raised # "none"
           THEN /\ Finish(r, ErrorResult(ind.raised))
                /\ plocal' = plocal
           ELSE /\ plocal' = [plocal EXCEPT ![r].indicators = Some(ind.value)]
                /\ ppc' = [ppc EXCEPT ![r] = "decide"]
                /\ presult' = presult
    /\ Logged(r, <<"compute_indicators">>)
    /\ UNCHANGED <<penv, preport>>
    /\ UNCHANGED <<decideVars, indVars, sentVars>>

\* line 78, and lines 120-134 when it raises
Decide(r) ==
    /\ ppc[r] = "decide"
    /\ LET dec == decide(LocalOf("indicators", r)[1], LocalOf("sentiment_result", r))
       IN  IF dec.raised # "none"
           THEN /\ Finish(r, ErrorResult(dec.raised))
                /\ plocal' = plocal
           ELSE /\ plocal' = [plocal EXCEPT ![r].decision = dec.value]
                /\ ppc' = [ppc EXCEPT ![r] = "assemble"]
                /\ presult' = presult
    /\ Logged(r, <<"decide">>)
    /\ UNCHANGED <<penv, preport>>
    /\ UNCHANGED <<decideVars, indVars, sentVars>>

\* lines 80-118
Assemble(r) ==
    /\ ppc[r] = "assemble"
    /\ Finish(r, SuccessResult(plocal[r]))
    /\ Logged(r, <<"assemble">>)
    /\ UNCHANGED <<penv, plocal, preport>>
    /\ UNCHANGED <<decideVars, indVars, sentVars>>

\* stock_routes, lines 114-121: the report of a successful analysis
GenerateReport(r) ==
    /\ ppc[r] = "done"
    /\ presult[r][1].status = "success"
    /\ preport' = [preport EXCEPT ![r] = Some(generate_report(presult[r][1]))]
    /\ ppc' = [ppc EXCEPT ![r] = "reported"]
    /\ Logged(r, <<"generate_report">>)
    /\ UNCHANGED <<penv, plocal, presult>>
    /\ UNCHANGED <<decideVars, indVars, sentVars>>

Step == \E r \in Requests :
    \/ FetchPrices(r)
    \/ AnalyzeNews(r)
    \/ ComputeSnapshot(r)
    \/ Decide(r)
    \/ Assemble(r)
    \/ GenerateReport(r)

NextPipe ==
    \/ Request
    \/ Step

SpecPipe == Init /\ [][NextPipe]_vars

(***************************************************************************)
(* Properties of the pipeline.                                             *)
(***************************************************************************)
PDone(r) == ppc[r] \in {"done", "reported"}

PRes(r) == presult[r][1]

PricesFail(r) == Env(r).prices.kind = "raises" \/ Env(r).prices.closes = <<>>

\* the scorer is unavailable to request r
ScorerUnavailable(r) == Env(r).news.kind \in {"none", "no_key", "raises"}

C22_AcquisitionFailure ==
    \A r \in Requests :
        /\ (ppc[r] \notin {"idle", "fetch_prices"} /\ PricesFail(r)) =>
              /\ ppc[r] = "done"
              /\ PRes(r).status = "error"
              /\ "error" \in DOMAIN PRes(r)
              /\ \A i \in 1..Len(ptrace[r]) :
                    ptrace[r][i] \notin {"compute_indicators", "decide", "analyze_sentiment"}
              /\ plocal[r].indicators = None /\ plocal[r].decision = None
        /\ (PDone(r) /\ PRes(r).status = "success") => ~PricesFail(r)

\* a download without rows has ended as an error result
C22_Witness ==
    /\ ppc["a"] = "done"
    /\ Env("a").prices = [kind |-> "frame", closes |-> <<>>]
    /\ PRes("a").status = "error"
    /\ ptrace["a"] = <<"fetch_prices">>

\* C23: under every interleaving of the requests, the snapshot a request
\* holds is the one of its own price series, and the indicators and the
\* decision of its result are those analyze_stock returns when it runs
\* alone on the same price series and sentiment scores.
C23_Independent ==
    \A r \in Requests :
        /\ plocal[r].df # None => plocal[r].df[1] = Env(r).prices.closes
        /\ plocal[r].indicators # None =>
              plocal[r].indicators[1] = compute_indicators(TRUE, Env(r).prices.closes).value
        /\ PDone(r) =>
              /\ PRes(r).status = analyze_stock(Env(r)).status
              /\ PRes(r).status = "success" =>
                    /\ PRes(r).data.indicators = analyze_stock(Env(r)).data.indicators
                    /\ PRes(r).data.decision = analyze_stock(Env(r)).data.decision

\* two requests in progress at once on different price series: one has
\* decided and not yet returned, the other is about to decide
C23_Witness ==
    /\ ppc["a"] = "assemble" /\ ppc["b"] = "decide"
    /\ plocal["a"].indicators # plocal["b"].indicators
    /\ plocal["a"].decision[1].action = "BUY"
    /\ Env("b").prices.closes = Pullback(30)

\* in the calls of request r, every `later` comes after an `earlier`
Precedes(r, earlier, later) ==
    \A i \in 1..Len(ptrace[r]) :
        ptrace[r][i] = later => \E j \in 1..(i - 1) : ptrace[r][j] = earlier

\* C25: a request runs price acquisition, then indicator computation, then
\* sentiment aggregation, then the decision, then result assembly: no
\* sentiment scoring starts before the indicators of that request have
\* been computed.
C25_StageOrder ==
    \A r \in Requests :
        /\ Precedes(r, "fetch_prices", "compute_indicators")
        /\ Precedes(r, "compute_indicators", "analyze_sentiment")
        /\ Precedes(r, "analyze_sentiment", "decide") \/ ~(\E i \in 1..Len(ptrace[r]) :
                                                            ptrace[r][i] = "analyze_sentiment")
        /\ Precedes(r, "compute_indicators", "decide")
        /\ Precedes(r, "decide", "assemble")

\* the order the code has: acquisition, sentiment, indicators, decision,
\* assembly
C25_SentimentFirst ==
    \A r \in Requests :
        /\ Precedes(r, "fetch_prices", "fetch_news")
        /\ Precedes(r, "fetch_news", "analyze_sentiment")
        /\ Precedes(r, "fetch_news", "compute_indicators")
        /\ Precedes(r, "compute_indicators", "decide")
        /\ Precedes(r, "decide", "assemble")
        /\ \A i, j \in 1..Len(ptrace[r]) :
              (ptrace[r][i] = "analyze_sentiment" /\ ptrace[r][j] = "compute_indicators") => i < j

(***************************************************************************)
(* Composition of the indicator engine with decide.                        *)
(***************************************************************************)
\* C28: for every non-empty price series the snapshot of compute_indicators
\* has rsi, ma20 and macd with rsi a number in [0, 100], and decide applied
\* to it returns, its action selected from that number: BUY below 30, SELL
\* above 70, HOLD between.
C28_SnapshotFeedsDecide ==
    (IDone("compute_indicators") /\ ICl.hasClose /\ ICl.closes # <<>>) =>
        /\ IOut.raised = "none"
        /\ DOMAIN IOut.value = {"rsi", "ma20", "macd"}
        /\ ~IOut.value.rsi.nan
        /\ 0 <= IOut.value.rsi.v /\ IOut.value.rsi.v <= 1000000
        /\ decide(IOut.value, None).raised = "none"
        /\ LET act == decide(IOut.value, None).value[1].action
           IN  /\ act = "BUY" <=> IOut.value.rsi.v < 300000
               /\ act = "SELL" <=> IOut.value.rsi.v > 700000

\* what does hold of the composition: decide returns on every snapshot, and
\* a not-a-number rsi is decided as HOLD
C28_NanIsHold ==
    (IDone("compute_indicators") /\ ICl.hasClose /\ ICl.closes # <<>>) =>
        /\ decide(IOut.value, None).raised = "none"
        /\ IOut.value.rsi.nan => decide(IOut.value, None).value[1].action = "HOLD"

(***************************************************************************)
(* decide on the aggregates of no scored text.                             *)
(***************************************************************************)
NoTextAggregate == sentiment \in {Some(SubstituteSentiment), Some(EmptyAggregate)}

\* C29: given the substitute sentiment of a failed analysis (overall_score
\* 0, overall_sentiment NEUTRAL, error set), or the aggregate of an empty
\* list of texts, decide returns on every snapshot on which it returns
\* with no sentiment, with the action and the confidence it returns with
\* no sentiment: those of the RSI table and the MACD adjustment.
C29_NeutralSubstitute ==
    (NoTextAggregate /\ pc \in {"returned", "raised"}) =>
        /\ WellFormed => Returned
        /\ Returned =>
              /\ Res.action = TableAction
              /\ Res.confidence = Conf(TableConfidence)
              /\ Res = ReturnValue(BaseRule(Rsi, Macd))

\* a base BUY confirmed by MACD, given the substitute, stays a BUY at 0.9
C29_Witness ==
    /\ Returned
    /\ sentiment = Some(SubstituteSentiment)
    /\ Rsi < 300000 /\ Macd # None /\ Macd[1] > 0
    /\ Res.action = "BUY" /\ Res.confidence = Conf(9000)

(***************************************************************************)
(* The report of a result.                                                 *)
(***************************************************************************)
PReport(r) == preport[r][1]

\* C30: generate_report returns a report with status success for every
\* success result of analyze_stock, also when the sentiment of the result
\* is None and when its macd is None.
C30_ReportSucceeds ==
    \A r \in Requests :
        ppc[r] = "reported" =>
            /\ PReport(r).raised = "none"
            /\ PReport(r).status = "success"

\* what does hold: the report succeeds exactly for the results that have
\* both a sentiment and a macd
C30_ReportNeedsBoth ==
    \A r \in Requests :
        ppc[r] = "reported" =>
            ((PReport(r).raised = "none" /\ PReport(r).status = "success")
                <=> (PRes(r).data.sentiment # None /\ PRes(r).data.indicators.macd # None))

====
